---- MODULE Spec2Model ----
(***************************************************************************)
(* GO-similarity interaction prediction of hpipy (hpipy/goSimilarity.py):  *)
(* GOSimilarity.initializeSemData, calculate_go_similarity, process_pair,  *)
(* chunk_pairs and predictGOPPIs as a state machine.                       *)
(*                                                                         *)
(* The external scorer (GOSemSim's mgoSim) is opaque: its outcome for a    *)
(* pair of GO terms is chosen freely the first time the pair is scored     *)
(* and is the same on every later call with the same terms (the semantic   *)
(* data, measure and combine rule are fixed for a run).                    *)
(***************************************************************************)
EXTENDS Integers, Sequences, FiniteSets, TLC

\* ----------------------------------------------------------------- bounds
\* rows of a term table (hostGOdf, pathogenGOdf)
MaxRows == 2
\* largest chunk_size argument tried
MaxChunkSize == 3
\* largest number of pairs (host rows x pathogen rows) of a run
MaxPairs == 4

\* ------------------------------------------------------------ input sets
HostIDs == {"h1", "h2"}
PathogenIDs == {"p1", "p2"}
\* the host side has two terms, so one host ProteinID can sit on two rows
\* with different terms; a repeated pathogen ProteinID repeats its row
HostGOTerms == {"GO:1", "GO:2"}
PathogenGOTerms == {"GO:1"}
\* values of multiprocessing.cpu_count()
CpuCounts == {1, 2}
\* values of the simScore threshold
Thresholds == {0, 1}
\* finite scores the scorer can return (stand-ins for floats; only their
\* order relative to the threshold matters)
Scores == {0, 1, 2}
go_sim_method == "Wang"
go_combine == "BMA"

\* --------------------------------------------------------- Python values
None == [tag |-> "None", v |-> 0]
NaN == [tag |-> "nan", v |-> 0]
RRuntimeError == [tag |-> "raise", v |-> 0]
Float(x) == [tag |-> "float", v |-> x]
\* the context object gosim.godata returns
SemDataObj == [tag |-> "semData", v |-> 0]

\* outcomes of gosim.mgoSim(...) followed by float(sim_score[0]):
\* an R error, NaN (an NA score), or a finite float
MgoSimOutcomes == {RRuntimeError, NaN} \cup {Float(x) : x \in Scores}

\* Python's  a > b  on floats: false when a is NaN
Gt(a, b) == a.tag = "float" /\ a.v > b

Min(a, b) == IF a < b THEN a ELSE b

\* tables of at most MaxRows rows, one (ProteinID, GOTerm) per row
Rows(ids, terms) == [ProteinID : ids, GOTerm : terms]
Tables(ids, terms) ==
    UNION {[1..n -> Rows(ids, terms)] : n \in 0..MaxRows}

VARIABLES
    hostGOdf, pathogenGOdf, simScore, chunk_size, cpu_count,
    semData, pc, pairs, count, chunk, pool, processes, pending, results,
    raised, predicted_interactions, predicted_df, mgoSim, scored

vars == <<hostGOdf, pathogenGOdf, simScore, chunk_size, cpu_count,
          semData, pc, pairs, count, chunk, pool, processes, pending,
          results, raised, predicted_interactions, predicted_df, mgoSim,
          scored>>

inputs == <<hostGOdf, pathogenGOdf, simScore, chunk_size, cpu_count>>

\* ------------------------------------------------------- pure functions

\* mutant: the external call without the try/except, its error propagates
calculate_go_similarity_NoCatch(raw) == raw

\* calculate_go_similarity: the try/except around the external call
calculate_go_similarity(raw) ==
    IF raw.tag = "raise" THEN None ELSE raw

\* mutant: the threshold test with >= in place of >
process_pair_Geq(args, raw) ==
    LET similarity_score == calculate_go_similarity(raw) IN
    IF similarity_score.tag = "float"
       /\ similarity_score.v >= args.simScore
    THEN << [Host |-> args.host_protein, Pathogen |-> args.pathogen_protein,
             Host_GO |-> args.host_go, Pathogen_GO |-> args.pathogen_go,
             Similarity_Score |-> similarity_score.v] >>
    ELSE << >>

\* what process_pair returns for a task whose external call came out as raw:
\* <<row>> for the list, <<>> for None (and nothing is returned when the
\* call to calculate_go_similarity raises, see process_pair_raises)
process_pair(args, raw) ==
    LET similarity_score == calculate_go_similarity(raw) IN
    IF similarity_score.tag # "raise"
       /\ similarity_score # None /\ Gt(similarity_score, args.simScore)
    THEN << [Host |-> args.host_protein, Pathogen |-> args.pathogen_protein,
             Host_GO |-> args.host_go, Pathogen_GO |-> args.pathogen_go,
             Similarity_Score |-> similarity_score.v] >>
    ELSE << >>

\* whether an exception escapes process_pair (none is caught there)
process_pair_raises(args, raw) ==
    calculate_go_similarity(raw).tag = "raise"

\* the task tuple of one host row and one pathogen row
PairTask(h, p, sd, t) ==
    [host_protein |-> h.ProteinID, host_go |-> h.GOTerm,
     pathogen_protein |-> p.ProteinID, pathogen_go |-> p.GOTerm,
     semData |-> sd, go_sim_method |-> go_sim_method,
     go_combine |-> go_combine, simScore |-> t]

\* mutant: the two for clauses swapped, pathogen rows outer
CreatePairs_PathogenMajor(hdf, pdf, sd, t) ==
    [n \in 1..(Len(hdf) * Len(pdf)) |->
        PairTask(hdf[((n - 1) % Len(hdf)) + 1],
                 pdf[((n - 1) \div Len(hdf)) + 1], sd, t)]

\* the nested comprehension that builds pairs: host rows outer, pathogen
\* rows inner
CreatePairs(hdf, pdf, sd, t) ==
    [n \in 1..(Len(hdf) * Len(pdf)) |->
        PairTask(hdf[((n - 1) \div Len(pdf)) + 1],
                 pdf[((n - 1) % Len(pdf)) + 1], sd, t)]

\* Python's s[a:b] for 0 <= a <= b
Slice(s, a, b) == SubSeq(s, a + 1, Min(b, Len(s)))

\* chunk_pairs: the chunks the generator yields, in order, from offset i on
RECURSIVE ChunksFrom(_, _, _)
ChunksFrom(ps, size, i) ==
    IF i >= Len(ps) THEN << >>
    ELSE << Slice(ps, i, i + size) >> \o ChunksFrom(ps, size, i + size)

\* mutant: the slice one short, pairs[i:i + chunk_size - 1]
RECURSIVE ChunksFrom_ShortSlice(_, _, _)
ChunksFrom_ShortSlice(ps, size, i) ==
    IF i >= Len(ps) THEN << >>
    ELSE << Slice(ps, i, i + size - 1) >>
         \o ChunksFrom_ShortSlice(ps, size, i + size)
chunk_pairs_ShortSlice(ps, size) == ChunksFrom_ShortSlice(ps, size, 0)

\* mutant: the slice one long, pairs[i:i + chunk_size + 1]
RECURSIVE ChunksFrom_Overlap(_, _, _)
ChunksFrom_Overlap(ps, size, i) ==
    IF i >= Len(ps) THEN << >>
    ELSE << Slice(ps, i, i + size + 1) >>
         \o ChunksFrom_Overlap(ps, size, i + size)
chunk_pairs_Overlap(ps, size) == ChunksFrom_Overlap(ps, size, 0)

\* mutant: only full chunks, range(0, len(pairs) - chunk_size + 1, chunk_size)
RECURSIVE ChunksFrom_DropPartial(_, _, _)
ChunksFrom_DropPartial(ps, size, i) ==
    IF i + size > Len(ps) THEN << >>
    ELSE << Slice(ps, i, i + size) >>
         \o ChunksFrom_DropPartial(ps, size, i + size)
chunk_pairs_DropPartial(ps, size) == ChunksFrom_DropPartial(ps, size, 0)

\* mutant: range(0, len(pairs) + 1, chunk_size), an empty list still
\* yields one (empty) chunk
RECURSIVE ChunksFrom_EmptyChunk(_, _, _)
ChunksFrom_EmptyChunk(ps, size, i) ==
    IF i > Len(ps) THEN << >>
    ELSE << Slice(ps, i, i + size) >>
         \o ChunksFrom_EmptyChunk(ps, size, i + size)
chunk_pairs_EmptyChunk(ps, size) == ChunksFrom_EmptyChunk(ps, size, 0)

chunk_pairs(ps, size) == ChunksFrom(ps, size, 0)

\* filter(None, results) for a completed results list
RECURSIVE FilterNone(_)
FilterNone(rs) ==
    IF rs = << >> THEN << >> ELSE Head(rs) \o FilterNone(Tail(rs))

\* ----------------------------------------------------------------- state

\* the arguments of a run; chunk_size is a positive integer and
\* processes = -1 says that no pool has been asked for yet
Init ==
    /\ hostGOdf \in Tables(HostIDs, HostGOTerms)
    /\ pathogenGOdf \in Tables(PathogenIDs, PathogenGOTerms)
    /\ Len(hostGOdf) * Len(pathogenGOdf) <= MaxPairs
    /\ simScore \in Thresholds
    /\ chunk_size \in 1..MaxChunkSize
    /\ cpu_count \in CpuCounts
    /\ semData = [tag |-> "unset", v |-> 0]
    /\ pc = "init"
    /\ pairs = << >>
    /\ count = 0
    /\ chunk = << >>
    /\ pool = 0
    /\ processes = -1
    /\ pending = {}
    /\ results = << >>
    /\ raised = FALSE
    /\ predicted_interactions = << >>
    /\ predicted_df = << >>
    /\ mgoSim = << >>
    /\ scored = {}

\* initializeSemData: gosim.godata succeeds, or raises and None is returned
initializeSemData ==
    /\ pc = "init"
    /\ \E ok \in BOOLEAN : semData' = IF ok THEN SemDataObj ELSE None
    /\ pc' = "ready"
    /\ UNCHANGED <<inputs, pairs, count, chunk, pool, processes, pending,
                   results, raised, predicted_interactions, predicted_df,
                   mgoSim, scored>>

\* predictGOPPIs up to the loop: the empty result list and the pair list
predictGOPPIs ==
    /\ pc = "ready"
    /\ predicted_interactions' = << >>
    /\ pairs' = CreatePairs(hostGOdf, pathogenGOdf, semData, simScore)
    /\ count' = 0
    /\ pc' = "loop"
    /\ UNCHANGED <<inputs, semData, chunk, pool, processes, pending, results,
                   raised, predicted_df, mgoSim, scored>>

\* the for statement asks chunk_pairs for its next chunk
NextChunk ==
    /\ pc = "loop"
    /\ LET cs == chunk_pairs(pairs, chunk_size) IN
       IF count < Len(cs)
       THEN /\ chunk' = cs[count + 1]
            /\ count' = count + 1
            /\ pc' = "pool"
       ELSE /\ pc' = "finalize"
            /\ UNCHANGED <<chunk, count>>
    /\ UNCHANGED <<inputs, semData, pairs, pool, processes, pending, results,
                   raised, predicted_interactions, predicted_df, mgoSim,
                   scored>>

\* with Pool(processes=cpu_count()-1): Pool raises ValueError below 1
CreatePool ==
    /\ pc = "pool"
    /\ processes' = cpu_count - 1
    /\ IF processes' < 1
       THEN /\ pc' = "error"
            /\ UNCHANGED <<pool, pending>>
       ELSE /\ pool' = pool + 1
            /\ pending' = 1..Len(chunk)
            /\ pc' = "map"
    /\ UNCHANGED <<inputs, semData, pairs, count, chunk, results, raised,
                   predicted_interactions, predicted_df, mgoSim, scored>>

\* a worker of the pool runs process_pair on task k of the chunk
ProcessPair(k) ==
    /\ pc = "map"
    /\ k \in pending
    /\ LET args == chunk[k]
           key == <<args.host_go, args.pathogen_go>>
       IN \E raw \in MgoSimOutcomes :
            /\ key \in DOMAIN mgoSim => raw = mgoSim[key]
            /\ mgoSim' = mgoSim @@ (key :> raw)
            /\ results' = results @@ (k :> process_pair(args, raw))
            /\ raised' = (raised \/ process_pair_raises(args, raw))
    /\ pending' = pending \ {k}
    /\ scored' = scored \cup {(count - 1) * chunk_size + k}
    /\ UNCHANGED <<inputs, semData, pc, pairs, count, chunk, pool, processes,
                   predicted_interactions, predicted_df>>

\* pool.map returns once every task is done (or re-raises a worker's
\* exception); the chunk's rows are appended to the running list
Collect ==
    /\ pc = "map"
    /\ pending = {}
    /\ IF raised
       THEN /\ pc' = "error"
            /\ pool' = pool - 1
            /\ UNCHANGED predicted_interactions
       ELSE /\ predicted_interactions' =
                   predicted_interactions \o FilterNone(results)
            /\ pc' = "exit"
            /\ UNCHANGED pool
    /\ UNCHANGED <<inputs, semData, pairs, count, chunk, processes, pending,
                   results, raised, predicted_df, mgoSim, scored>>

\* mutant: the pool is not torn down when the chunk is done
ExitPool_NoTeardown ==
    /\ pc = "exit"
    /\ results' = << >>
    /\ pc' = "loop"
    /\ UNCHANGED <<inputs, semData, pairs, count, chunk, pool, processes,
                   pending, raised, predicted_interactions, predicted_df,
                   mgoSim, scored>>

\* leaving the with block terminates the pool; del results; gc.collect()
ExitPool ==
    /\ pc = "exit"
    /\ pool' = pool - 1
    /\ results' = << >>
    /\ pc' = "loop"
    /\ UNCHANGED <<inputs, semData, pairs, count, chunk, processes, pending,
                   raised, predicted_interactions, predicted_df, mgoSim,
                   scored>>

\* the DataFrame built from the collected rows is returned
Finalize ==
    /\ pc = "finalize"
    /\ predicted_df' = predicted_interactions
    /\ pc' = "done"
    /\ UNCHANGED <<inputs, semData, pairs, count, chunk, pool, processes,
                   pending, results, raised, predicted_interactions, mgoSim,
                   scored>>

Next ==
    \/ initializeSemData
    \/ predictGOPPIs
    \/ NextChunk
    \/ CreatePool
    \/ \E k \in 1..MaxChunkSize : ProcessPair(k)
    \/ Collect
    \/ ExitPool
    \/ Finalize

Spec == Init /\ [][Next]_vars

\* ------------------------------------------------------ claim vocabulary

Generated == pc \notin {"init", "ready"}
NPairs == Len(pairs)
KeyOf(t) == <<t.host_go, t.pathogen_go>>
\* the external call's outcome for task t, once t's terms have been scored
RawOf(t) == mgoSim[KeyOf(t)]
Failed(t) == RawOf(t).tag = "raise"
AboveThreshold(t) == RawOf(t).tag = "float" /\ RawOf(t).v > simScore
ExpectedRow(t) ==
    [Host |-> t.host_protein, Pathogen |-> t.pathogen_protein,
     Host_GO |-> t.host_go, Pathogen_GO |-> t.pathogen_go,
     Similarity_Score |-> RawOf(t).v]
IsRowOf(r, t) ==
    /\ r.Host = t.host_protein
    /\ r.Pathogen = t.pathogen_protein
    /\ r.Host_GO = t.host_go
    /\ r.Pathogen_GO = t.pathogen_go
HasRow(t) == \E m \in 1..Len(predicted_df) : IsRowOf(predicted_df[m], t)
Occurrences(df, id) == Cardinality({a \in 1..Len(df) : df[a].ProteinID = id})
NoRepeatedID(df) ==
    \A a, b \in 1..Len(df) : df[a].ProteinID = df[b].ProteinID => a = b
RECURSIVE Concat(_)
Concat(ss) == IF ss = << >> THEN << >> ELSE Head(ss) \o Concat(Tail(ss))
Chunks == chunk_pairs(pairs, chunk_size)

\* ---------------------------------------------------------------- claims

\* C1: after predictGOPPIs finishes, the result table has a row for a
\* generated pair if and only if the scorer returned a defined score for it
\* that is strictly greater than the threshold; a score equal to or below
\* the threshold, or a failure, gives no row, and every row is the row of a
\* generated pair and carries its score.
C1_RowIffScoreAboveThreshold ==
    pc = "done" =>
        /\ \A n \in 1..NPairs :
              /\ KeyOf(pairs[n]) \in DOMAIN mgoSim
              /\ HasRow(pairs[n]) <=> AboveThreshold(pairs[n])
        /\ \A m \in 1..Len(predicted_df) :
              \E n \in 1..NPairs : predicted_df[m] = ExpectedRow(pairs[n])

C1_Witness ==
    /\ pc = "done"
    /\ Len(predicted_df) >= 1
    /\ \E n \in 1..NPairs :
          RawOf(pairs[n]).tag = "float" /\ RawOf(pairs[n]).v = simScore
    /\ \E n \in 1..NPairs : AboveThreshold(pairs[n])

\* C2 (as stated): for non-empty host and pathogen tables the pair list has
\* exactly |H| x |P| tasks in host-major input order, each with a unique
\* (hostID, pathogenID) key.
KeysDistinct ==
    \A m, n \in 1..NPairs :
        (pairs[m].host_protein = pairs[n].host_protein
         /\ pairs[m].pathogen_protein = pairs[n].pathogen_protein) => m = n
HostMajor ==
    /\ NPairs = Len(hostGOdf) * Len(pathogenGOdf)
    /\ \A a \in 1..Len(hostGOdf) : \A b \in 1..Len(pathogenGOdf) :
          LET t == pairs[(a - 1) * Len(pathogenGOdf) + b] IN
          /\ t.host_protein = hostGOdf[a].ProteinID
          /\ t.host_go = hostGOdf[a].GOTerm
          /\ t.pathogen_protein = pathogenGOdf[b].ProteinID
          /\ t.pathogen_go = pathogenGOdf[b].GOTerm
C2_UniqueKeysAsStated ==
    (Generated /\ Len(hostGOdf) > 0 /\ Len(pathogenGOdf) > 0) =>
        (HostMajor /\ KeysDistinct)

\* C2 (amended): the pair list has exactly |H| x |P| tasks, one per
\* combination of a host row and a pathogen row, in host-major input order;
\* for non-empty tables the (hostID, pathogenID) keys are pairwise distinct
\* exactly when no ProteinID is repeated within either table.
C2_CrossProductHostMajor ==
    Generated =>
        /\ HostMajor
        /\ (Len(hostGOdf) > 0 /\ Len(pathogenGOdf) > 0) =>
              (KeysDistinct <=>
                  (NoRepeatedID(hostGOdf) /\ NoRepeatedID(pathogenGOdf)))

C2_Witness ==
    /\ pc = "loop"
    /\ Len(hostGOdf) = 2
    /\ Len(pathogenGOdf) = 2
    /\ NoRepeatedID(hostGOdf)
    /\ NoRepeatedID(pathogenGOdf)
    /\ NPairs = 4

\* C3: for chunk_size >= 1 the chunks chunk_pairs yields are contiguous and
\* non-overlapping, each holds between 1 and chunk_size tasks, and their
\* concatenation in yield order is exactly the pair list; the chunk the
\* loop is working on is the count-th of them.
C3_ChunkingLossless ==
    Generated =>
        /\ Concat(Chunks) = pairs
        /\ \A c \in 1..Len(Chunks) :
              /\ Len(Chunks[c]) >= 1
              /\ Len(Chunks[c]) <= chunk_size
              /\ Chunks[c] =
                    SubSeq(pairs, (c - 1) * chunk_size + 1,
                           (c - 1) * chunk_size + Len(Chunks[c]))
        /\ pc \in {"pool", "map", "exit"} => chunk = Chunks[count]

C3_Witness ==
    /\ pc = "map"
    /\ NPairs = 4
    /\ chunk_size = 3
    /\ count = 2
    /\ Len(chunk) = 1

\* C4: chunks are processed one after the other in input order: at most one
\* pool exists, it exists exactly while a chunk is being mapped and
\* collected, only tasks of the current chunk are unfinished, and when the
\* pool for a chunk is created every task of the earlier chunks has been
\* scored and its rows appended to the running list.
DoneBefore(k) ==
    SelectSeq(SubSeq(pairs, 1, k), LAMBDA t : AboveThreshold(t))
C4_SequentialChunks ==
    /\ pool \in {0, 1}
    /\ pool = 1 <=> pc \in {"map", "exit"}
    /\ pending # {} => pc = "map"
    /\ pending \subseteq 1..Len(chunk)
    /\ pc \in {"pool", "map", "exit"} =>
          LET start == (count - 1) * chunk_size IN
          /\ scored = (1..start) \cup
                (IF pc = "pool" THEN {}
                 ELSE {start + k : k \in (1..Len(chunk)) \ pending})
          /\ pc \in {"pool", "map"} =>
                Len(predicted_interactions) = Len(DoneBefore(start))

C4_Witness ==
    /\ pc = "map"
    /\ count = 2
    /\ pool = 1
    /\ pending # {}
    /\ Len(predicted_interactions) >= 1

\* C5: a scorer failure for a pair never aborts the run (the only abort is
\* the pool constructor's); the failed pair has no row, every pair is still
\* scored, and the result is exactly the rows of the pairs that did not fail
\* and scored above the threshold, in task order.
SomeFailure == \E key \in DOMAIN mgoSim : mgoSim[key].tag = "raise"
C5_ScorerFailureIsolated ==
    /\ ~raised
    /\ pc = "error" => (processes < 1 /\ scored = {})
    /\ (pc = "done" /\ SomeFailure) =>
          /\ scored = 1..NPairs
          /\ \A n \in 1..NPairs : Failed(pairs[n]) => ~HasRow(pairs[n])
          /\ Len(predicted_df) =
                Len(SelectSeq(pairs,
                        LAMBDA t : ~Failed(t) /\ AboveThreshold(t)))
          /\ \A n \in 1..NPairs :
                (~Failed(pairs[n]) /\ AboveThreshold(pairs[n])) =>
                    \E m \in 1..Len(predicted_df) :
                        predicted_df[m] = ExpectedRow(pairs[n])

C5_Witness ==
    /\ pc = "done"
    /\ SomeFailure
    /\ count >= 2
    /\ Len(predicted_df) >= 1
    /\ \E n \in 1..NPairs : Failed(pairs[n])

\* C6 (as stated): when the ontology context cannot be built the run halts
\* before any pair is generated; no run is in GENERATE, DISPATCH or later
\* with a context whose construction failed.
C6_ContextFailureHalts == semData = None => ~Generated

\* C7 (as stated): the worker count asked of every pool is
\* max(1, available cores - 1), hence at least 1.
C7_WorkerCountAtLeastOne ==
    processes # -1 =>
        /\ processes = (IF cpu_count - 1 > 1 THEN cpu_count - 1 ELSE 1)
        /\ processes >= 1

\* C8 (as stated): after a complete run no two rows of the result table have
\* the same ordered (Host, Pathogen) combination.
C8_NoRepeatedKeyAsStated ==
    pc = "done" =>
        \A m, n \in 1..Len(predicted_df) :
            (predicted_df[m].Host = predicted_df[n].Host
             /\ predicted_df[m].Pathogen = predicted_df[n].Pathogen) => m = n

\* C8 (amended): after a complete run the number of rows with a given
\* (Host, Pathogen) combination is at most the number of host rows with
\* that host ID times the number of pathogen rows with that pathogen ID; so
\* no combination is repeated when no ProteinID is repeated within a table.
RowsWith(h, p) ==
    Cardinality({m \in 1..Len(predicted_df) :
                    predicted_df[m].Host = h /\ predicted_df[m].Pathogen = p})
C8_RowsPerKeyBounded ==
    pc = "done" =>
        \A h \in HostIDs : \A p \in PathogenIDs :
            RowsWith(h, p) <=
                Occurrences(hostGOdf, h) * Occurrences(pathogenGOdf, p)

C8_Witness ==
    /\ pc = "done"
    /\ chunk_size = 1
    /\ NoRepeatedID(hostGOdf)
    /\ NoRepeatedID(pathogenGOdf)
    /\ Len(predicted_df) = 4

\* C9 (as stated): a chunk_size larger than the pair count N yields exactly
\* one chunk, and chunk_size = 1 yields N chunks of one task each.
C9_ChunkCountAsStated ==
    Generated =>
        /\ chunk_size > NPairs => Len(Chunks) = 1
        /\ chunk_size = 1 =>
              (Len(Chunks) = NPairs
               /\ \A c \in 1..Len(Chunks) : Len(Chunks[c]) = 1)

\* C9 (amended): a chunk_size larger than N yields exactly one chunk when
\* N >= 1 and no chunk when N = 0; chunk_size = 1 yields N chunks of one
\* task each; the loop has run once per chunk when it ends.
C9_ChunkCount ==
    Generated =>
        /\ (chunk_size > NPairs /\ NPairs >= 1) => Len(Chunks) = 1
        /\ NPairs = 0 => Len(Chunks) = 0
        /\ chunk_size = 1 =>
              (Len(Chunks) = NPairs
               /\ \A c \in 1..Len(Chunks) : Len(Chunks[c]) = 1)
        /\ pc \in {"finalize", "done"} => count = Len(Chunks)

C9_Witness ==
    /\ pc = "done"
    /\ NPairs = 2
    /\ chunk_size = 3
    /\ count = 1

\* C10: with zero rows on either side the pair list is empty, no chunk is
\* taken, no pool is asked for or created, the run never errors, and the
\* returned table has zero rows, whatever the other side holds.
C10_EmptyInputs ==
    (Len(hostGOdf) = 0 \/ Len(pathogenGOdf) = 0) =>
        /\ pairs = << >>
        /\ count = 0
        /\ pool = 0
        /\ processes = -1
        /\ pc \in {"init", "ready", "loop", "finalize", "done"}
        /\ predicted_df = << >>

C10_Witness ==
    /\ pc = "done"
    /\ Len(pathogenGOdf) = 0
    /\ Len(hostGOdf) = MaxRows
    /\ cpu_count = 1
    /\ predicted_df = << >>

====
